---- MODULE Spec2Model ----
(***************************************************************************)
(* A model of the video pipeline of src/main.py and src/utils.py: the      *)
(* driver and its three stages (script, scenes, concat), the per-scene     *)
(* steps of process_scene, the long-running job client (VeoClient), the    *)
(* transport helpers _post_json and _get_json, and concat_videos.          *)
(*                                                                         *)
(* Four specifications share the module:                                   *)
(*   Spec       one invocation of the driver, from any artifact store an   *)
(*              earlier invocation can have left;                          *)
(*   SpecPoll   VeoClient._poll_until_done with its calls of _get_json,    *)
(*              on a clock counted in seconds;                             *)
(*   SpecGet    one call of _get_json for any configured retry count;      *)
(*   SpecOrder  the sorted(glob(...)) of concat_final on any directory     *)
(*              listing.                                                   *)
(***************************************************************************)
EXTENDS Integers, Sequences, FiniteSets, TLC

(* ------------------------------ bounds -------------------------------- *)

\* The most scenes a script document holds.
MaxScenes == 3

\* The largest retry count _get_json is called with in SpecGet.
MaxRetries == 3

\* The most files of one kind a directory listing holds in SpecOrder.
MaxListed == 3

(* ------------------------- program constants -------------------------- *)

\* for scene in scenes[:2]
SliceLimit == 2

DEFAULT_TIMEOUT == 120

DEFAULT_RETRIES == 3

DEFAULT_BACKOFF == 2

\* _poll_until_done(..., timeout_sec: int = 600)
TIMEOUT_SEC == 600

\* time.sleep(5) at the end of a poll iteration
POLL_INTERVAL == 5

\* The minimum width of f"{scene_id:02d}"
PadWidth == 2

(* --------------------------- artifact store --------------------------- *)

\* A file is <<kind, scene id>>; the files that belong to no scene have id 0.
Audio(id) == <<"audio", id>>

Video(id) == <<"video", id>>

Frame(id) == <<"frame", id>>

ScriptFile == <<"script", 0>>

FinalVideo == <<"final", 0>>

\* concat_videos' intermediate files, all relative to the working directory.
ConcatTemporaries ==
    {<<"concat_list", 0>>, <<"concat_audio", 0>>,
     <<"merged_temp", 0>>, <<"merged_audio", 0>>}

SceneIds == 1..MaxScenes

SceneFiles == {"audio", "video", "frame"} \X SceneIds

Files == SceneFiles \cup {ScriptFile, FinalVideo} \cup ConcatTemporaries

\* What a path holds: nothing; what an earlier invocation wrote; what this
\* invocation wrote in full; what this invocation's interrupted write left.
Contents == {"absent", "prior", "new", "partial"}

\* Path.exists()
Exists(f, file) == f[file] # "absent"

VARIABLES
    stage,            \* args.stage
    pc,               \* the driver's position
    fs,               \* the artifact store: file -> content
    fs0,              \* the artifact store when the invocation began
    script,           \* the scene ids of the document in scripts/script.json
    document,         \* what scripts/script.json holds: a list of scenes or not
    incomplete,       \* ids of the descriptors that lack a required field
    scenes,           \* generate_scenes: the loaded scene list
    idx,              \* generate_scenes: index of the scene being processed
    prev_scene,       \* generate_scenes: prev_scene (0 is None)
    generated,        \* generate_scenes: ids of the scenes that returned a result
    attempted,        \* ids of the scenes process_scene was called for
    calls,            \* per scene: how many remote requests of each kind were sent
    job,              \* per scene: the state of its video job
    ends,             \* per scene: how each of its remote steps ended
    prompt,           \* per scene: the prompt its video job was given
    remoteFailed,     \* ids of the scenes for which a remote service failed
    localFailed,      \* ids of the scenes that failed with no remote failure
    textCalls,        \* requests sent to the text generation service
    scriptOutcome,    \* how generate_full_script ended
    toolRuns,         \* media-tool invocations made by concat_videos
    concatOutcome,    \* how concat_final ended
    videos,           \* concat_final: the sorted video list (scene ids)
    audios,           \* concat_final: the sorted audio list (scene ids)
    log,              \* the kinds of record written to the log
    stagesAttempted   \* the stage functions the driver called, in order

VARIABLES
    clock,            \* time.time(), in seconds
    start,            \* _poll_until_done: start
    ppc,              \* _poll_until_done: position, or how it ended
    gpc,              \* _get_json: position, or how it ended
    retries,          \* _get_json: retries
    attempt,          \* _get_json: attempt
    backoff,          \* _get_json: backoff
    sleeps,           \* _get_json: the delays slept so far in this call
    requests,         \* _get_json: the requests sent so far in this call
    response          \* _get_json: what the returned document says

VARIABLES
    dirKind,          \* concat_final: "video" or "audio"
    dirListing,       \* concat_final: scene ids in the order glob yields them
    dirSorted,        \* concat_final: the list sorted() returns
    dirDone           \* concat_final: sorted() has returned

pollVars ==
    <<clock, start, ppc, gpc, retries, attempt, backoff, sleeps, requests, response>>

orderVars == <<dirKind, dirListing, dirSorted, dirDone>>

mainVars ==
    <<stage, pc, fs, fs0, script, document, incomplete, scenes, idx, prev_scene, generated, attempted,
      calls, job, ends, prompt, remoteFailed, localFailed, textCalls, scriptOutcome, toolRuns,
      concatOutcome, videos, audios, log, stagesAttempted>>

(* ------------------------- pure helper functions ---------------------- *)

Min(a, b) == IF a <= b THEN a ELSE b

\* scenes[:2]: the scenes the loop of generate_scenes iterates over.
ScenesToProcess(s) == SubSeq(s, 1, Min(SliceLimit, Len(s)))

\* A skip test that never skips (the test dropped).
GateNeverOpen(f, id) == FALSE

\* process_scene's skip test: audio_path.exists() and video_path.exists()
GateOpen(f, id) == Exists(f, Audio(id)) /\ Exists(f, Video(id))

\* A precondition test that never reports the script missing.
ScriptNeverMissing(f) == FALSE

\* generate_scenes' precondition test: not script_path.exists()
ScriptMissing(f) == ~Exists(f, ScriptFile)

\* A precondition test that looks at the audio list only.
ConcatBlockedByAudiosOnly(vs, as) == as = <<>>

\* concat_final's precondition test: not videos or not audios
ConcatBlocked(vs, as) == vs = <<>> \/ as = <<>>

\* The runs of a _post_json that retried like _get_json: a failing call has
\* sent a request per attempt.
PostJsonRetrying(tries) ==
    {[result |-> r, sent |-> IF r = "ok" THEN 1 ELSE tries] :
        r \in {"ok", "http_error", "transport_error"}}

\* The runs of one _post_json call: one request is sent and its result,
\* whatever it is, ends the call (its retries parameter, tries, is not read).
PostJsonRuns(tries) ==
    {[result |-> r, sent |-> 1] : r \in {"ok", "http_error", "transport_error"}}

NoCalls == [tts |-> 0, submit |-> 0, poll |-> 0, download |-> 0]

\* No remote step of a scene has ended.
NoEnds == [tts |-> "none", submit |-> "none", poll |-> "none", download |-> "none"]

Stages == {"script", "scenes", "concat", "all"}

\* The document json.dump writes for a script of n scenes: ids 1..n in order.
ScriptOf(n) == [i \in 1..n |-> i]

\* What json.loads can return for the model's text and json.load for the
\* file: a list of scene descriptors, or any other value (an object, a
\* string; for the file also text that is no JSON at all).
Documents == {"list", "other"}

\* The descriptors of a list of n scenes that lack one of the keys
\* process_scene reads ("scene_id", "ssml", "visual_desc"): none or one.
Incompletes(n) == {{}} \cup {{k} : k \in 1..n}

(* ----------------- file names and their sorted() order ---------------- *)

\* Character codes of the decimal digits of n (n >= 0), most significant first.
RECURSIVE Digits(_)
Digits(n) == IF n < 10 THEN <<48 + n>> ELSE Digits(n \div 10) \o <<48 + (n % 10)>>

\* f"{scene_id:02d}": the digits, zero padded on the left to PadWidth.
Fmt02d(n) ==
    LET d == Digits(n)
    IN  IF Len(d) < PadWidth THEN [i \in 1..(PadWidth - Len(d)) |-> 48] \o d ELSE d

\* "scene_" and the two extensions, as character codes.
ScenePrefix == <<115, 99, 101, 110, 101, 95>>

Extension(kind) == IF kind = "video" THEN <<46, 109, 112, 52>> ELSE <<46, 109, 112, 51>>

\* f"scene_{scene_id:02d}.mp4" / ".mp3"
FileName(kind, id) == ScenePrefix \o Fmt02d(id) \o Extension(kind)

\* Python's order of two strings: by the first differing character, a proper
\* prefix first.
RECURSIVE StrLess(_, _)
StrLess(a, b) ==
    IF b = <<>> THEN FALSE
    ELSE IF a = <<>> THEN TRUE
    ELSE IF Head(a) # Head(b) THEN Head(a) < Head(b)
    ELSE StrLess(Tail(a), Tail(b))

\* The order sorted() puts two paths of one directory in.
PathLess(kind, i, j) == StrLess(FileName(kind, i), FileName(kind, j))

\* Insert id into a list that is sorted by file name.
RECURSIVE Insert(_, _, _)
Insert(kind, id, s) ==
    IF s = <<>> THEN <<id>>
    ELSE IF PathLess(kind, id, Head(s)) THEN <<id>> \o s
    ELSE <<Head(s)>> \o Insert(kind, id, Tail(s))

\* sorted(dir.glob("scene_*")): the listing (in any order) sorted by path.
RECURSIVE SortedPaths(_, _)
SortedPaths(kind, listing) ==
    IF listing = <<>> THEN <<>>
    ELSE Insert(kind, Head(listing), SortedPaths(kind, Tail(listing)))

\* The orders a directory listing can return the files of a set in.
RECURSIVE Listings(_)
Listings(S) ==
    IF S = {} THEN {<<>>}
    ELSE UNION {{<<x>> \o p : p \in Listings(S \ {x})} : x \in S}

\* The scene ids whose artifact of a kind exists.
Present(f, kind) == {id \in SceneIds : Exists(f, <<kind, id>>)}

(* --------------------------- the driver: Init ------------------------- *)

\* What an earlier invocation can have left of one scene: nothing, its audio
\* (the video step failed or never ran), or audio, video and frame.
PriorScene == {"none", "audio", "both"}

PriorContent(state, kind) ==
    IF state = "both" \/ (state = "audio" /\ kind = "audio") THEN "prior" ELSE "absent"

\* The artifact store with the script present or not and the scenes an
\* earlier invocation processed (the first SliceLimit) in the given states.
StoreOf(hasScript, prior) ==
    [file \in Files |->
        IF file = ScriptFile THEN (IF hasScript THEN "prior" ELSE "absent")
        ELSE IF file \in SceneFiles /\ file[2] \in DOMAIN prior
             THEN PriorContent(prior[file[2]], file[1])
        ELSE "absent"]

MainInit ==
    /\ stage \in Stages
    /\ \E hasScript \in BOOLEAN, n \in 0..MaxScenes,
          prior \in [1..Min(SliceLimit, MaxScenes) -> PriorScene] :
          /\ fs = StoreOf(hasScript, prior)
          /\ script = IF hasScript THEN ScriptOf(n) ELSE <<>>
          /\ hasScript \/ n = 0
          /\ incomplete \in Incompletes(n)
          /\ document \in IF hasScript /\ n = 0 THEN Documents ELSE {"list"}
    /\ fs0 = fs
    /\ pc = "main_script"
    /\ scenes = <<>>
    /\ idx = 0
    /\ prev_scene = 0
    /\ generated = <<>>
    /\ attempted = {}
    /\ calls = [id \in SceneIds |-> NoCalls]
    /\ job = [id \in SceneIds |-> "none"]
    /\ ends = [id \in SceneIds |-> NoEnds]
    /\ prompt = [id \in SceneIds |-> <<"none", 0, 0>>]
    /\ remoteFailed = {}
    /\ localFailed = {}
    /\ textCalls = 0
    /\ scriptOutcome = "none"
    /\ toolRuns = 0
    /\ concatOutcome = "none"
    /\ videos = <<>>
    /\ audios = <<>>
    /\ log = {}
    /\ stagesAttempted = <<>>

sceneVars ==
    <<scenes, idx, prev_scene, generated, attempted, calls, job, ends, prompt,
      remoteFailed, localFailed>>

concatVars == <<toolRuns, concatOutcome, videos, audios>>

scriptVars == <<script, document, incomplete, textCalls, scriptOutcome>>

(* ------------------------- the driver: __main__ ----------------------- *)

\* The stage a driver position stands before, and the position after it.
StageAt(p) ==
    IF p = "main_script" THEN "script"
    ELSE IF p = "main_scenes" THEN "scenes" ELSE "concat"

After(p) ==
    IF p = "main_script" THEN "main_scenes"
    ELSE IF p = "main_scenes" THEN "main_concat" ELSE "main_end"

\* if args.stage in [<stage>, "all"]
Requested(p) == stage \in {StageAt(p), "all"}

\* A stage that was not requested is passed over.
DriverSkip ==
    /\ pc \in {"main_script", "main_scenes", "main_concat"}
    /\ ~Requested(pc)
    /\ pc' = After(pc)
    /\ UNCHANGED <<stage, fs, fs0, scriptVars, sceneVars, concatVars, log,
                   stagesAttempted, pollVars, orderVars>>

\* log(f"Pipeline finished with stage: {args.stage}")
Finish ==
    /\ pc = "main_end"
    /\ pc' = "finished"
    /\ log' = log \cup {<<"pipeline_finished", 0>>}
    /\ UNCHANGED <<stage, fs, fs0, scriptVars, sceneVars, concatVars,
                   stagesAttempted, pollVars, orderVars>>

(* ------------------ stage 1: generate_full_script --------------------- *)

\* How generate_full_script(skip_search=True) can end: a prompt file or
\* search_context.txt cannot be read; the one _post_json call of
\* generate_text fails; the response holds no text; the text is not JSON;
\* or the document is written.  Every failure is caught and logged.
GenerateFullScript ==
    /\ pc = "main_script"
    /\ Requested(pc)
    /\ stagesAttempted' = Append(stagesAttempted, "script")
    /\ pc' = After(pc)
    /\ \/ /\ scriptOutcome' = "io_error"
          /\ log' = log \cup {<<"script_unexpected_error", 0>>}
          /\ UNCHANGED <<textCalls, fs, script, document, incomplete>>
       \/ \E run \in PostJsonRuns(DEFAULT_RETRIES) :
            /\ textCalls' = textCalls + run.sent
            /\ IF run.result # "ok"
               THEN /\ scriptOutcome' = "transport_error"
                    /\ log' = log \cup {<<"script_unexpected_error", 0>>}
                    /\ UNCHANGED <<fs, script, document, incomplete>>
               ELSE \E answer \in {"no_text", "not_json", "document"} :
                      /\ scriptOutcome' = answer
                      /\ IF answer = "no_text"
                         THEN /\ log' = log \cup {<<"script_api_error", 0>>}
                              /\ UNCHANGED <<fs, script, document, incomplete>>
                         ELSE IF answer = "not_json"
                         THEN /\ log' = log \cup {<<"script_parse_error", 0>>}
                              /\ UNCHANGED <<fs, script, document, incomplete>>
                         ELSE \E n \in 0..MaxScenes, doc \in Documents :
                                /\ doc = "list" \/ n = 0
                                /\ script' = ScriptOf(n)
                                /\ document' = doc
                                /\ incomplete' \in Incompletes(n)
                                /\ fs' = [fs EXCEPT ![ScriptFile] = "new"]
                                /\ log' = log \cup {<<"script_saved", 0>>}
    /\ UNCHANGED <<stage, fs0, sceneVars, concatVars, pollVars, orderVars>>

(* --------------------- stage 2: generate_scenes ----------------------- *)

\* The ways _poll_until_done ends: it returns the download URI, or raises for
\* a done response without one, for the timeout, or for a failed status query.
PollEnds == {"done", "protocol_error", "timeout", "request_failure"}

\* The ways a streamed transfer to a file (tts_speech, _download) ends: the
\* body is written in full; raise_for_status() raises before the file is
\* opened; the stream breaks after open(out_path, 'wb').
StreamEnds == {"ok", "http_error", "stream_error"}

\* What the target of a streamed transfer holds afterwards.
Streamed(before, end) ==
    IF end = "ok" THEN "new" ELSE IF end = "stream_error" THEN "partial" ELSE before

\* An exception that nothing catches ends the interpreter with a traceback.
Escapes ==
    /\ pc' = "crashed"
    /\ log' = log \cup {<<"traceback", 0>>}

\* generate_scenes: json.load(f) and scenes[:2] are in no try, so a file that
\* holds no list of scenes raises out of generate_scenes.
generate_scenes ==
    /\ pc = "main_scenes"
    /\ Requested(pc)
    /\ stagesAttempted' = Append(stagesAttempted, "scenes")
    /\ IF ScriptMissing(fs)
       THEN /\ log' = log \cup {<<"missing_script", 0>>}
            /\ pc' = After(pc)
            /\ UNCHANGED <<scenes, idx>>
       ELSE IF document # "list"
       THEN Escapes /\ UNCHANGED <<scenes, idx>>
       ELSE /\ scenes' = script
            /\ idx' = 1
            /\ IF ScenesToProcess(script) = <<>>
               THEN /\ log' = log \cup {<<"no_scenes_generated", 0>>}
                    /\ pc' = After(pc)
               ELSE /\ pc' = "scene"
                    /\ UNCHANGED log
    /\ UNCHANGED <<stage, fs, fs0, scriptVars, prev_scene, generated, attempted,
                   calls, job, ends, prompt, remoteFailed, localFailed, concatVars,
                   pollVars, orderVars>>

\* The loop taking its scenes from the last to the first.
CurrentFromLast == scenes[Len(ScenesToProcess(scenes)) + 1 - idx]

\* The scene process_scene is working on: for scene in scenes[:2], in the
\* order of the list.
Current == scenes[idx]

\* A loop that takes every scene it processed for the previous scene.
NextPrevAlways(id, ok, prev) == id

\* if result: ... prev_scene = scene (otherwise prev_scene stays as it is)
NextPrev(id, ok, prev) == IF ok THEN id ELSE prev

\* A process_scene that, when the status query of a job fails, queries the
\* same job again before it gives the scene up.
SceneReturnRequerying(id, ok, entries) ==
    LET again == ~ok /\ job[id] = "polling"
        gen == IF ok THEN Append(generated, id) ELSE generated
        more == idx + 1 <= Len(ScenesToProcess(scenes))
        failure == IF ok \/ again THEN {}
                   ELSE {<<"scene_error", id>>, <<"scene_skipped", id>>}
        summary == IF more \/ again THEN {}
                   ELSE IF gen = <<>> THEN {<<"no_scenes_generated", 0>>}
                   ELSE {<<"completed_scenes", Len(gen)>>}
    IN  /\ generated' = gen
        /\ prev_scene' = IF ok THEN id ELSE prev_scene
        /\ idx' = IF again THEN idx ELSE idx + 1
        /\ pc' = IF again THEN "poll"
                 ELSE IF more THEN "scene" ELSE After("main_scenes")
        /\ log' = log \cup entries \cup failure \cup summary

\* process_scene returns (a result when ok, None otherwise) and the loop of
\* generate_scenes takes its next scene, or ends and logs its count.
SceneReturn(id, ok, entries) ==
    LET gen == IF ok THEN Append(generated, id) ELSE generated
        more == idx + 1 <= Len(ScenesToProcess(scenes))
        failure == IF ok THEN {} ELSE {<<"scene_error", id>>, <<"scene_skipped", id>>}
        summary == IF more THEN {}
                   ELSE IF gen = <<>> THEN {<<"no_scenes_generated", 0>>}
                   ELSE {<<"completed_scenes", Len(gen)>>}
    IN  /\ generated' = gen
        /\ prev_scene' = NextPrev(id, ok, prev_scene)
        /\ idx' = idx + 1
        /\ pc' = IF more THEN "scene" ELSE After("main_scenes")
        /\ log' = log \cup entries \cup failure \cup summary

\* process_scene goes on to its next step.
SceneStep(next) ==
    /\ pc' = next
    /\ UNCHANGED <<generated, prev_scene, idx, log>>

sceneFrame ==
    <<stage, fs0, scriptVars, scenes, concatVars, stagesAttempted, pollVars, orderVars>>

\* process_scene up to the skip test.  The three reads of the descriptor
\* (scene["scene_id"], scene["ssml"], scene["visual_desc"]) come before the
\* try: a missing key raises KeyError out of process_scene and out of
\* generate_scenes.
process_scene ==
    /\ pc = "scene"
    /\ attempted' = attempted \cup {Current}
    /\ IF Current \in incomplete
       THEN Escapes /\ UNCHANGED <<generated, prev_scene, idx>>
       ELSE IF GateOpen(fs, Current)
       THEN SceneReturn(Current, TRUE, {<<"scene_exists", Current>>})
       ELSE SceneStep("tts")
    /\ UNCHANGED <<sceneFrame, fs, calls, job, ends, prompt, remoteFailed,
                   localFailed>>

\* Step 1: tts_speech(ssml, out_path=audio_path), called whenever the skip
\* test failed.
tts_speech ==
    /\ pc = "tts"
    /\ \E end \in StreamEnds :
         /\ calls' = [calls EXCEPT ![Current].tts = @ + 1]
         /\ ends' = [ends EXCEPT ![Current].tts = end]
         /\ fs' = [fs EXCEPT ![Audio(Current)] = Streamed(@, end)]
         /\ IF end = "ok"
            THEN /\ SceneStep("prompt")
                 /\ UNCHANGED remoteFailed
            ELSE /\ SceneReturn(Current, FALSE, {})
                 /\ remoteFailed' = remoteFailed \cup {Current}
    /\ UNCHANGED <<sceneFrame, attempted, job, prompt, localFailed>>

\* Step 2, the prompt: the fixed introduction for scene_id 1, otherwise
\* prompts/scene_prompt.txt formatted with the previous scene's visual_desc
\* ("" when prev_scene is None).  The template may be unreadable (open or
\* format raises) or format to blank text.
BuildPrompt ==
    /\ pc = "prompt"
    /\ IF Current = 1
       THEN /\ prompt' = [prompt EXCEPT ![Current] = <<"intro", 0, 0>>]
            /\ SceneStep("submit")
            /\ UNCHANGED localFailed
       ELSE \E template \in {"text", "blank", "unreadable"} :
              IF template = "unreadable"
              THEN /\ SceneReturn(Current, FALSE, {})
                   /\ localFailed' = localFailed \cup {Current}
                   /\ UNCHANGED prompt
              ELSE /\ prompt' = [prompt EXCEPT ![Current] = <<template, prev_scene, Current>>]
                   /\ SceneStep("submit")
                   /\ UNCHANGED localFailed
    /\ UNCHANGED <<sceneFrame, fs, attempted, calls, job, ends, remoteFailed>>

\* A prompt test that lets every prompt through.
PromptNeverBlank(p) == FALSE

\* generate_video_with_image's prompt test: not prompt.strip()
PromptBlank(p) == p[1] = "blank"

\* A _start_job that takes any answered submission for a started job.
JobStartedUnchecked(result, named) == result = "ok"

\* _start_job returns a handle: raise_for_status() passed and the response
\* document holds a non-empty "name".
JobStarted(result, named) == result = "ok" /\ named

\* generate_video_with_image up to the end of _start_job: the prompt test,
\* then one _post_json call, then the test for the operation name.
StartJob ==
    /\ pc = "submit"
    /\ IF PromptBlank(prompt[Current])
       THEN /\ job' = [job EXCEPT ![Current] = "invalid_request"]
            /\ localFailed' = localFailed \cup {Current}
            /\ SceneReturn(Current, FALSE, {})
            /\ UNCHANGED <<calls, ends, remoteFailed>>
       ELSE \E run \in PostJsonRuns(DEFAULT_RETRIES), named \in BOOLEAN :
              /\ calls' = [calls EXCEPT ![Current].submit = @ + run.sent]
              /\ ends' = [ends EXCEPT ![Current].submit =
                            IF run.result # "ok" THEN run.result
                            ELSE IF named THEN "handle" ELSE "no_handle"]
              /\ UNCHANGED localFailed
              /\ IF JobStarted(run.result, named)
                 THEN /\ job' = [job EXCEPT ![Current] = "polling"]
                      /\ SceneStep("poll")
                      /\ UNCHANGED remoteFailed
                 ELSE /\ job' = [job EXCEPT ![Current] =
                                   IF run.result = "ok" THEN "failed_protocol"
                                   ELSE "failed_submit"]
                      /\ remoteFailed' = remoteFailed \cup {Current}
                      /\ SceneReturn(Current, FALSE, {})
    /\ UNCHANGED <<sceneFrame, fs, attempted, prompt>>

\* _poll_until_done returned a download URI to generate_video_with_image.
HasUri(end) == end = "done"

\* _poll_until_done as generate_video_with_image sees it: one blocking call
\* that ends in one of PollEnds (SpecPoll models its loop).
PollUntilDone ==
    /\ pc = "poll"
    /\ \E end \in PollEnds :
         /\ calls' = [calls EXCEPT ![Current].poll = @ + 1]
         /\ ends' = [ends EXCEPT ![Current].poll = end]
         /\ IF HasUri(end)
            THEN /\ job' = [job EXCEPT ![Current] = "done"]
                 /\ SceneStep("download")
                 /\ UNCHANGED remoteFailed
            ELSE /\ job' = [job EXCEPT ![Current] =
                              IF end = "protocol_error" THEN "failed_protocol"
                              ELSE IF end = "timeout" THEN "failed_timeout"
                              ELSE "failed_poll"]
                 /\ remoteFailed' = remoteFailed \cup {Current}
                 /\ SceneReturn(Current, FALSE, {})
    /\ UNCHANGED <<sceneFrame, fs, attempted, prompt, localFailed>>

\* _download(video_uri, out_path=video_path)
Download ==
    /\ pc = "download"
    /\ \E end \in StreamEnds :
         /\ calls' = [calls EXCEPT ![Current].download = @ + 1]
         /\ ends' = [ends EXCEPT ![Current].download = end]
         /\ fs' = [fs EXCEPT ![Video(Current)] = Streamed(@, end)]
         /\ IF end = "ok"
            THEN /\ job' = [job EXCEPT ![Current] = "downloaded"]
                 /\ SceneStep("frame")
                 /\ UNCHANGED remoteFailed
            ELSE /\ job' = [job EXCEPT ![Current] = "failed_download"]
                 /\ remoteFailed' = remoteFailed \cup {Current}
                 /\ SceneReturn(Current, FALSE, {})
    /\ UNCHANGED <<sceneFrame, attempted, prompt, localFailed>>

\* An extract_last_frame whose failure reaches process_scene's except.
ExtractReturnsIfExtracted(extracted) == extracted

\* extract_last_frame returns to process_scene, never raises: its two except
\* clauses take CalledProcessError and every other Exception.
ExtractReturns(extracted) == TRUE

\* Step 3: extract_last_frame, whose failures are logged and not raised;
\* process_scene then returns its result.
extract_last_frame ==
    /\ pc = "frame"
    /\ \E extracted \in BOOLEAN :
         /\ fs' = [fs EXCEPT ![Frame(Current)] = IF extracted THEN "new" ELSE @]
         /\ SceneReturn(Current, ExtractReturns(extracted),
                        IF extracted THEN {} ELSE {<<"frame_failed", Current>>})
    /\ UNCHANGED <<sceneFrame, attempted, calls, job, ends, prompt, remoteFailed,
                   localFailed>>

(* ----------------------- stage 3: concat_final ------------------------ *)

concatFrame == <<stage, fs0, scriptVars, sceneVars, pollVars, orderVars>>

\* What a media-tool run that failed leaves at its output path: what was
\* there, or a partly written file.
ToolLeaves(before) == {before, "partial"}

\* A media-tool run fails: subprocess.run(check=True) raises out of
\* concat_videos, past its unlink calls, into concat_final's except.
ConcatRaise ==
    /\ concatOutcome' = "error"
    /\ log' = log \cup {<<"concat_error", 0>>}
    /\ pc' = After("main_concat")

\* concat_final up to the first media-tool run: the two sorted listings, the
\* precondition test, and concat_videos writing concat_list.txt.
concat_final ==
    /\ pc = "main_concat"
    /\ Requested(pc)
    /\ stagesAttempted' = Append(stagesAttempted, "concat")
    /\ \E lv \in Listings(Present(fs, "video")), la \in Listings(Present(fs, "audio")) :
         /\ videos' = SortedPaths("video", lv)
         /\ audios' = SortedPaths("audio", la)
    /\ IF ConcatBlocked(videos', audios')
       THEN /\ concatOutcome' = "missing_outputs"
            /\ log' = log \cup {<<"missing_outputs", 0>>}
            /\ pc' = After(pc)
            /\ UNCHANGED fs
       ELSE /\ fs' = [fs EXCEPT ![<<"concat_list", 0>>] = "new"]
            /\ pc' = "ffmpeg_video"
            /\ UNCHANGED <<concatOutcome, log>>
    /\ UNCHANGED <<concatFrame, toolRuns>>

\* concat_videos: ffmpeg joins the videos into merged_temp.mp4; then
\* concat_audio.txt is written.
FfmpegVideo ==
    /\ pc = "ffmpeg_video"
    /\ toolRuns' = toolRuns + 1
    /\ \/ /\ fs' = [fs EXCEPT ![<<"merged_temp", 0>>] = "new",
                              ![<<"concat_audio", 0>>] = "new"]
          /\ pc' = "ffmpeg_audio"
          /\ UNCHANGED <<concatOutcome, log>>
       \/ /\ \E left \in ToolLeaves(fs[<<"merged_temp", 0>>]) :
               fs' = [fs EXCEPT ![<<"merged_temp", 0>>] = left]
          /\ ConcatRaise
    /\ UNCHANGED <<concatFrame, videos, audios, stagesAttempted>>

\* concat_videos: ffmpeg joins the audios into merged_audio.mp3.
FfmpegAudio ==
    /\ pc = "ffmpeg_audio"
    /\ toolRuns' = toolRuns + 1
    /\ \/ /\ fs' = [fs EXCEPT ![<<"merged_audio", 0>>] = "new"]
          /\ pc' = "ffmpeg_mux"
          /\ UNCHANGED <<concatOutcome, log>>
       \/ /\ \E left \in ToolLeaves(fs[<<"merged_audio", 0>>]) :
               fs' = [fs EXCEPT ![<<"merged_audio", 0>>] = left]
          /\ ConcatRaise
    /\ UNCHANGED <<concatFrame, videos, audios, stagesAttempted>>

\* concat_videos: ffmpeg muxes the two into output_path; then the four
\* unlink calls, and concat_final logs the final video.
FfmpegMux ==
    /\ pc = "ffmpeg_mux"
    /\ toolRuns' = toolRuns + 1
    /\ \/ /\ fs' = [file \in Files |->
                      IF file = FinalVideo THEN "new"
                      ELSE IF file \in ConcatTemporaries THEN "absent"
                      ELSE fs[file]]
          /\ concatOutcome' = "created"
          /\ log' = log \cup {<<"final_created", 0>>}
          /\ pc' = After("main_concat")
       \/ /\ \E left \in ToolLeaves(fs[FinalVideo]) :
               fs' = [fs EXCEPT ![FinalVideo] = left]
          /\ ConcatRaise
    /\ UNCHANGED <<concatFrame, videos, audios, stagesAttempted>>

\* The steps of one invocation of the driver.
MainNext ==
    \/ DriverSkip
    \/ GenerateFullScript
    \/ generate_scenes
    \/ process_scene
    \/ tts_speech
    \/ BuildPrompt
    \/ StartJob
    \/ PollUntilDone
    \/ Download
    \/ extract_last_frame
    \/ concat_final
    \/ FfmpegVideo
    \/ FfmpegAudio
    \/ FfmpegMux
    \/ Finish

(* ------------- _get_json and VeoClient._poll_until_done --------------- *)

\* Seconds one GET request can take: it answers at once, after a second, or
\* only when its timeout (timeout=DEFAULT_TIMEOUT) expires.
RequestSeconds == {0, 1, DEFAULT_TIMEOUT}

\* What one GET request yields: an exception (requests.get, raise_for_status
\* or resp.json raises), or a document: not done, done with the video URI,
\* done without it.
GetAnswers == {"fail", "pending", "done_uri", "done_no_uri"}

\* A backoff that shrinks instead of growing.
NextBackoffHalved(b) == b \div 2

\* backoff *= 2
NextBackoff(b) == b * 2

getVars == <<gpc, attempt, backoff, sleeps, requests, response>>

\* The call _get_json(url, headers, retries=r) begins.
GetCall(r) ==
    /\ gpc' = "loop"
    /\ retries' = r
    /\ attempt' = 1
    /\ backoff' = DEFAULT_BACKOFF
    /\ sleeps' = <<>>
    /\ requests' = 0
    /\ response' = "none"

\* One iteration of "for attempt in range(1, retries + 1)": the request; on
\* an exception the sleep and the doubling when attempts remain, the raise
\* when none does.  With the range exhausted the final raise is reached.
_get_json ==
    /\ gpc = "loop"
    /\ IF attempt > retries
       THEN /\ gpc' = "raised"
            /\ UNCHANGED <<clock, attempt, backoff, sleeps, requests, response>>
       ELSE \E secs \in RequestSeconds, answer \in GetAnswers :
              /\ requests' = requests + 1
              /\ IF answer # "fail"
                 THEN /\ gpc' = "returned"
                      /\ response' = answer
                      /\ clock' = clock + secs
                      /\ UNCHANGED <<attempt, backoff, sleeps>>
                 ELSE IF attempt < retries
                 THEN /\ clock' = clock + secs + backoff
                      /\ sleeps' = Append(sleeps, backoff)
                      /\ backoff' = NextBackoff(backoff)
                      /\ attempt' = attempt + 1
                      /\ UNCHANGED <<gpc, response>>
                 ELSE /\ gpc' = "raised"
                      /\ clock' = clock + secs
                      /\ UNCHANGED <<attempt, backoff, sleeps, response>>
    /\ UNCHANGED <<start, ppc, retries, mainVars, orderVars>>

\* The head of "while True": the timeout test, then the status query.
PollCheck ==
    /\ ppc = "check"
    /\ IF clock - start > TIMEOUT_SEC
       THEN /\ ppc' = "timeout"
            /\ UNCHANGED <<getVars, retries>>
       ELSE /\ ppc' = "query"
            /\ GetCall(DEFAULT_RETRIES)
    /\ UNCHANGED <<clock, start, mainVars, orderVars>>

\* The rest of the iteration, once _get_json has ended: its error passes
\* through; a done document yields the URI or the missing-URI error; any
\* other document is followed by time.sleep(5).
PollAnswer ==
    /\ ppc = "query"
    /\ gpc \in {"returned", "raised"}
    /\ gpc' = "idle"
    /\ IF gpc = "raised" THEN ppc' = "request_failure" /\ UNCHANGED clock
       ELSE IF response = "done_uri" THEN ppc' = "done" /\ UNCHANGED clock
       ELSE IF response = "done_no_uri" THEN ppc' = "protocol_error" /\ UNCHANGED clock
       ELSE ppc' = "check" /\ clock' = clock + POLL_INTERVAL
    /\ UNCHANGED <<start, retries, attempt, backoff, sleeps, requests, response,
                   mainVars, orderVars>>

\* No call of _get_json or _poll_until_done is in progress.
PollParked ==
    /\ clock = 0 /\ start = 0
    /\ ppc = "none" /\ gpc = "idle"
    /\ retries = DEFAULT_RETRIES
    /\ attempt = 0 /\ backoff = DEFAULT_BACKOFF
    /\ sleeps = <<>> /\ requests = 0 /\ response = "none"

(* ------------------- concat_final's sorted listings ------------------- *)

\* Scene ids around the widths f"{scene_id:02d}" goes through.
SampleIds ==
    {1, 2, 10^(PadWidth - 1) - 1, 10^(PadWidth - 1),
     10^PadWidth - 1, 10^PadWidth, 10^PadWidth + 1}

\* sorted(video_dir.glob("scene_*.mp4")) / sorted(audio_dir.glob("scene_*.mp3"))
SortListing ==
    /\ ~dirDone
    /\ dirSorted' = SortedPaths(dirKind, dirListing)
    /\ dirDone' = TRUE
    /\ UNCHANGED <<dirKind, dirListing, mainVars, pollVars>>

OrderParked ==
    /\ dirKind = "video"
    /\ dirListing = <<>>
    /\ dirSorted = <<>>
    /\ dirDone = TRUE

\* The driver before its first step, with an empty store.
MainParked ==
    /\ MainInit
    /\ stage = "all"
    /\ \A file \in Files : fs[file] = "absent"

(* --------------------------- specifications --------------------------- *)

vars == <<mainVars, pollVars, orderVars>>

\* One invocation of the driver.
Init == MainInit /\ PollParked /\ OrderParked

Next == MainNext

Spec == Init /\ [][Next]_vars

\* One call of _poll_until_done, right after _start_job returned.
PollInit ==
    /\ MainParked /\ OrderParked
    /\ clock = 0 /\ start = 0
    /\ ppc = "check" /\ gpc = "idle"
    /\ retries = DEFAULT_RETRIES
    /\ attempt = 0 /\ backoff = DEFAULT_BACKOFF
    /\ sleeps = <<>> /\ requests = 0 /\ response = "none"

PollNext == PollCheck \/ _get_json \/ PollAnswer

SpecPoll == PollInit /\ [][PollNext]_vars

\* One call of _get_json with any retry count.
GetInit ==
    /\ MainParked /\ OrderParked
    /\ clock = 0 /\ start = 0
    /\ ppc = "none" /\ gpc = "loop"
    /\ retries \in 0..MaxRetries
    /\ attempt = 1 /\ backoff = DEFAULT_BACKOFF
    /\ sleeps = <<>> /\ requests = 0 /\ response = "none"

GetNext == _get_json

SpecGet == GetInit /\ [][GetNext]_vars

\* One sorted(glob(...)) of concat_final, on any listing of at most MaxListed
\* files in any order.
OrderInit ==
    /\ MainParked /\ PollParked
    /\ dirKind \in {"video", "audio"}
    /\ \E S \in SUBSET SampleIds :
          /\ Cardinality(S) <= MaxListed
          /\ dirListing \in Listings(S)
    /\ dirSorted = <<>>
    /\ dirDone = FALSE

OrderNext == SortListing

SpecOrder == OrderInit /\ [][OrderNext]_vars

(* ------------------------------ claims -------------------------------- *)

Range(s) == {s[i] : i \in DOMAIN s}

\* The scenes stage was entered with the script present and its loop ended.
ScenesLoopEnded ==
    \/ <<"no_scenes_generated", 0>> \in log
    \/ \E k \in 1..MaxScenes : <<"completed_scenes", k>> \in log

\* Both artifacts of a scene exist in a store.
HasBoth(f, id) == Exists(f, Audio(id)) /\ Exists(f, Video(id))

\* The scenes the log reports as skipped because of errors.
ReportedFailures == {id \in SceneIds : <<"scene_skipped", id>> \in log}

\* C1: a scene (a descriptor with all of its fields) whose audio and video
\* both existed when the invocation began and for which process_scene was called has had no remote request of any
\* kind sent and no job started, holds both artifacts exactly as they were,
\* and is among the scenes counted as generated.
C1_ExistingSceneSkipped ==
    \A id \in attempted \ incomplete :
        HasBoth(fs0, id) =>
            /\ calls[id] = NoCalls
            /\ job[id] = "none"
            /\ fs[Audio(id)] = fs0[Audio(id)]
            /\ fs[Video(id)] = fs0[Video(id)]
            /\ id \in Range(generated)

\* C1 witness: process_scene has returned for a scene that had both artifacts
\* while another scene of the same run went to the remote services.
C1_Witness ==
    /\ \E id \in attempted : HasBoth(fs0, id) /\ id \in Range(generated)
    /\ \E id \in attempted : calls[id].tts > 0

\* C2 (as claimed): when the loop of the scenes stage has ended and no scene
\* failed for a local reason, every scene of the script was attempted, every
\* scene without a remote failure holds its audio and video, and the stage
\* counts N - |F| successes and reports |F| failures, F being the scenes for
\* which a remote service failed.
C2_EveryScenePlayed ==
    (ScenesLoopEnded /\ localFailed = {}) =>
        /\ attempted = Range(scenes)
        /\ \A id \in Range(scenes) \ remoteFailed : HasBoth(fs, id)
        /\ Len(generated) = Len(scenes) - Cardinality(remoteFailed)
        /\ Cardinality(ReportedFailures) = Cardinality(remoteFailed)

\* C3 (as claimed): when the poll loop raises its timeout error, no more than
\* timeout_sec + poll_interval seconds have passed since the job was
\* submitted, the time spent in the status queries included.
C3_TimeoutWithinBound ==
    ppc = "timeout" => clock - start <= TIMEOUT_SEC + POLL_INTERVAL

\* C4: in a call of _get_json the requests sent never exceed retries; the
\* delays slept are 2, 4, 8, ..., each at least the one before; one delay was
\* slept before each attempt but the first, so none after the last; and the
\* call raises only when exactly retries requests were sent and failed.
C4_BackoffAndAttempts ==
    gpc \in {"loop", "returned", "raised"} =>
        /\ requests <= retries
        /\ \A k \in 1..Len(sleeps) : sleeps[k] = DEFAULT_BACKOFF * 2^(k - 1)
        /\ \A k \in 1..(Len(sleeps) - 1) : sleeps[k + 1] >= sleeps[k]
        /\ Len(sleeps) = attempt - 1
        /\ gpc = "loop" => requests = attempt - 1
        /\ gpc = "returned" => requests = attempt
        /\ gpc = "raised" =>
              /\ requests = retries
              /\ Len(sleeps) = IF retries = 0 THEN 0 ELSE retries - 1
              /\ response = "none"

\* C4 witness: a call with the default retry count has failed three times,
\* slept twice and raised.
C4_Witness ==
    /\ gpc = "raised"
    /\ retries = DEFAULT_RETRIES
    /\ requests = DEFAULT_RETRIES
    /\ Len(sleeps) = 2

\* C5 (as claimed): the list sorted() returns holds the listed scene ids in
\* ascending order, whatever the ids and the order of the listing.
C5_AscendingSceneIds ==
    dirDone =>
        /\ Range(dirSorted) = Range(dirListing)
        /\ \A i, j \in DOMAIN dirSorted : i < j => dirSorted[i] < dirSorted[j]

\* C6: once concat_final has been called with no video artifact or no audio
\* artifact in the store, it has ended with the missing-outputs record, no
\* media tool has run, and the final video and the four intermediate files
\* are as they were when the invocation began (absent).
C6_ConcatPrecondition ==
    ("concat" \in Range(stagesAttempted)
        /\ (Present(fs, "video") = {} \/ Present(fs, "audio") = {})) =>
        /\ concatOutcome = "missing_outputs"
        /\ <<"missing_outputs", 0>> \in log
        /\ toolRuns = 0
        /\ \A file \in ConcatTemporaries \cup {FinalVideo} :
              fs[file] = fs0[file] /\ ~Exists(fs, file)

\* C6 witness: concat was called with some audio present and no video.
C6_Witness ==
    /\ "concat" \in Range(stagesAttempted)
    /\ Present(fs, "video") = {}
    /\ Present(fs, "audio") # {}

\* C7: once generate_scenes has been called with no script.json, the
\* missing-script record is logged, no scene was attempted, no remote request
\* was sent, no file of the store was written by the stage, and a run of all
\* stages still goes on to the concat stage and finishes.
C7_ScenesNeedScript ==
    ("scenes" \in Range(stagesAttempted) /\ ~Exists(fs, ScriptFile)) =>
        /\ <<"missing_script", 0>> \in log
        /\ attempted = {} /\ generated = <<>>
        /\ \A id \in SceneIds : calls[id] = NoCalls /\ job[id] = "none"
        /\ \A file \in SceneFiles \cup {ScriptFile} : fs[file] = fs0[file]
        /\ pc \in {"main_concat", "ffmpeg_video", "ffmpeg_audio", "ffmpeg_mux",
                   "main_end", "finished"}
        /\ (stage = "all" /\ pc = "finished") => "concat" \in Range(stagesAttempted)

\* C7 witness: a run of all stages whose script generation failed, with no
\* script.json and artifacts of an earlier run in the store, has finished.
C7_Witness ==
    /\ stage = "all" /\ pc = "finished"
    /\ ~Exists(fs, ScriptFile)
    /\ "scenes" \in Range(stagesAttempted)
    /\ Present(fs, "audio") # {}

\* C8: no _post_json call sends more than one request: at most one job
\* submission per scene and one text-generation request per script stage; a
\* scene whose submission failed has sent exactly that one request, has made
\* no status query and no download, and was reported failed.
C8_PostSentOnce ==
    /\ textCalls <= 1
    /\ \A id \in SceneIds :
          /\ calls[id].submit <= 1
          /\ job[id] = "failed_submit" =>
                /\ calls[id].submit = 1
                /\ calls[id].poll = 0 /\ calls[id].download = 0
                /\ <<"scene_error", id>> \in log
                /\ id \notin Range(generated)

\* C8 witness: a job submission failed, and so did the text request.
C8_Witness ==
    /\ \E id \in SceneIds : job[id] = "failed_submit"
    /\ scriptOutcome = "transport_error"

\* C9 (as claimed): after concat_videos has returned or raised, none of the
\* four intermediate files exists.
C9_TemporariesRemoved ==
    concatOutcome \in {"created", "error"} =>
        \A file \in ConcatTemporaries : ~Exists(fs, file)

\* C10 (as claimed): in a run of all stages whose script generation failed
\* with a transport error, the failure is logged and neither the scenes stage
\* nor the concat stage is attempted: process_scene is called for no scene
\* and no media tool is run.
C10_FailedScriptStopsRun ==
    (stage = "all" /\ scriptOutcome = "transport_error") =>
        /\ <<"script_unexpected_error", 0>> \in log
        /\ attempted = {}
        /\ toolRuns = 0

\* C11 (as claimed): in a run whose stage selection includes the script stage
\* and that began with script.json in the store, the script stage is not run
\* again: no text-generation request is sent and script.json stays as it was.
C11_ExistingScriptNotRerun ==
    (stage \in {"script", "all"} /\ Exists(fs0, ScriptFile)) =>
        /\ textCalls = 0
        /\ fs[ScriptFile] = fs0[ScriptFile]

\* The jobs that were submitted and have not reached a terminal state.
InFlight == {id \in SceneIds : job[id] \in {"polling", "done"}}

\* A step in which a remote request is sent for scene k or one of its
\* artifacts is written.
Touches(k) ==
    \/ calls'[k] # calls[k]
    \/ \E kind \in {"audio", "video", "frame"} : fs'[<<kind, k>>] # fs[<<kind, k>>]

\* C12: at no time is more than one video job submitted and not terminal, and
\* whenever a request is sent or an artifact written for scene k, no request
\* has been sent for any scene with a greater id, before or after that step.
C12_OneSceneAtATime ==
    /\ [](Cardinality(InFlight) <= 1)
    /\ [][\A k \in SceneIds : Touches(k) =>
             \A j \in SceneIds : j > k => calls[j] = NoCalls /\ calls'[j] = NoCalls]_vars

\* C12 witness: the job of scene 2 is in flight after scene 1 went through
\* its own submission and reached a terminal state.
C12_Witness ==
    /\ job[2] = "polling"
    /\ calls[1].submit = 1
    /\ job[1] \notin {"none", "polling", "done"}

\* The stages the driver was asked for, in its order.
RequestedStages ==
    IF stage = "all" THEN <<"script", "scenes", "concat">> ELSE <<stage>>

\* C13 (as claimed): whatever fails inside a stage, no exception escapes to
\* the driver, the stages attempted so far are the first of the requested
\* ones in order, and a run that has ended has attempted every requested
\* stage and logged 'pipeline finished'.
C13_DriverAlwaysFinishes ==
    /\ pc # "crashed"
    /\ <<"traceback", 0>> \notin log
    /\ stagesAttempted = SubSeq(RequestedStages, 1, Len(stagesAttempted))
    /\ pc = "finished" =>
          /\ stagesAttempted = RequestedStages
          /\ <<"pipeline_finished", 0>> \in log

\* C14 (as claimed): a scene artifact that existed when the invocation began
\* is never rewritten; a scene that began with its audio and was processed
\* has had no speech synthesis request sent.
C14_ExistingArtifactKept ==
    /\ \A file \in SceneFiles : Exists(fs0, file) => fs[file] = fs0[file]
    /\ \A id \in attempted : Exists(fs0, Audio(id)) => calls[id].tts = 0

\* C15 (as claimed): a scene whose speech synthesis step failed (at the
\* status test or part-way through the streamed body) was aborted and
\* reported failed, had no video job submitted, and has no file at its audio
\* path unless one was there when the invocation began.
C15_FailedSpeechLeavesNothing ==
    \A id \in SceneIds :
        ends[id].tts \in {"http_error", "stream_error"} =>
            /\ <<"scene_error", id>> \in log
            /\ id \notin Range(generated)
            /\ calls[id].submit = 0 /\ job[id] = "none"
            /\ ~Exists(fs0, Audio(id)) => ~Exists(fs, Audio(id))

\* C16 (as claimed): whenever the store would make the skip test of a later
\* run of the scenes stage pass for a scene, the scene's audio and video were
\* both written in full: neither is what an interrupted transfer left.
C16_GateOnlyForFullArtifacts ==
    \A id \in SceneIds :
        GateOpen(fs, id) =>
            /\ fs[Audio(id)] \in {"prior", "new"}
            /\ fs[Video(id)] \in {"prior", "new"}

\* C17 (as claimed): the status query of a poll iteration sends exactly one
\* request, so that the requests sent for a job are as many as the iterations
\* of the loop.
C17_OneRequestPerIteration ==
    (ppc = "query" /\ gpc \in {"returned", "raised"}) => requests = 1

\* The states of a job that ended in failure.
FailedJobs ==
    {"failed_submit", "failed_protocol", "failed_timeout", "failed_poll",
     "failed_download"}

\* C18: every status query and download of an invocation follows a
\* submission of the same invocation that returned a handle (no handle of an
\* earlier invocation is used), and once a job has failed no further request
\* is sent for its scene, its state stays as it is and nothing is written to
\* the scene's video path.
C18_FailedJobNeverResumed ==
    /\ [](\A id \in SceneIds :
            (calls[id].poll > 0 \/ calls[id].download > 0) =>
                calls[id].submit = 1 /\ ends[id].submit = "handle")
    /\ [][\A id \in SceneIds :
            job[id] \in FailedJobs =>
                /\ calls'[id] = calls[id]
                /\ job'[id] = job[id]
                /\ fs'[Video(id)] = fs[Video(id)]]_vars

\* C18 witness: a run that found the audio an earlier, failed run had left
\* for scene 1 submitted a new job for it, which timed out, then went on to
\* submit the job of scene 2, and finished.
C18_Witness ==
    /\ pc = "finished"
    /\ fs0[Audio(1)] = "prior" /\ fs0[Video(1)] = "absent"
    /\ job[1] = "failed_timeout" /\ calls[1].submit = 1
    /\ calls[2].submit = 1

\* C19: a scene whose submission was answered without a handle has its job
\* failed with the protocol error, is reported failed, and has had no status
\* query and no download; a scene whose job was reported done without a
\* result locator has its job failed with the protocol error after that one
\* poll and has had no download; in both cases the video path is as it was.
C19_MalformedResponseEndsJob ==
    \A id \in SceneIds :
        /\ ends[id].submit = "no_handle" =>
              /\ job[id] = "failed_protocol"
              /\ <<"scene_error", id>> \in log
              /\ calls[id].submit = 1
              /\ calls[id].poll = 0 /\ ends[id].poll = "none"
              /\ calls[id].download = 0 /\ ends[id].download = "none"
              /\ fs[Video(id)] = fs0[Video(id)]
        /\ ends[id].poll = "protocol_error" =>
              /\ job[id] = "failed_protocol"
              /\ <<"scene_error", id>> \in log
              /\ calls[id].poll = 1
              /\ calls[id].download = 0 /\ ends[id].download = "none"
              /\ fs[Video(id)] = fs0[Video(id)]

\* C19 witness: the submission of scene 1 was answered without a handle and
\* the job of scene 2 was reported done without a locator.
C19_Witness ==
    /\ ends[1].submit = "no_handle"
    /\ ends[2].submit = "handle" /\ ends[2].poll = "protocol_error"
    /\ pc = "finished"

\* C20: a scene whose prompt is empty or whitespace has had no submission,
\* no status query and no download sent, and its video path is as it was when
\* the invocation began; once generate_video_with_image has been called with
\* that prompt the job has ended with the invalid-request error and the scene
\* is reported failed.
C20_BlankPromptFailsFast ==
    \A id \in SceneIds :
        prompt[id][1] = "blank" =>
            /\ calls[id].submit = 0 /\ ends[id].submit = "none"
            /\ calls[id].poll = 0 /\ ends[id].poll = "none"
            /\ calls[id].download = 0 /\ ends[id].download = "none"
            /\ fs[Video(id)] = fs0[Video(id)]
            /\ IF pc = "submit" /\ Current = id
               THEN job[id] = "none"
               ELSE /\ job[id] = "invalid_request"
                    /\ <<"scene_error", id>> \in log
                    /\ id \notin Range(generated)

\* C20 witness: generate_video_with_image was called for scene 2 with a
\* blank prompt after scene 1 had its video made, and the run has finished.
C20_Witness ==
    /\ pc = "finished"
    /\ job[1] = "downloaded"
    /\ prompt[2][1] = "blank" /\ job[2] = "invalid_request"

\* The driver is past the scenes stage.
PastScenes ==
    pc \in {"main_concat", "ffmpeg_video", "ffmpeg_audio", "ffmpeg_mux",
            "main_end", "finished"}

\* C21: a scene whose frame extraction failed has the failure logged, holds
\* the audio and the video this invocation wrote in full, is among the
\* scenes counted as generated, is not reported failed or skipped, and the
\* loop has moved past it: once the stage has ended, every later scene of the
\* processed list was attempted.
C21_FrameFailureTolerated ==
    \A id \in SceneIds :
        <<"frame_failed", id>> \in log =>
            /\ fs[Audio(id)] = "new" /\ fs[Video(id)] = "new"
            /\ job[id] = "downloaded"
            /\ id \in Range(generated)
            /\ <<"scene_error", id>> \notin log
            /\ <<"scene_skipped", id>> \notin log
            /\ idx > id
            /\ PastScenes =>
                  \A j \in Range(ScenesToProcess(scenes)) : j > id => j \in attempted

\* C21 witness: the frame extraction of scene 1 failed, scene 2 was then
\* processed with scene 1 as its previous scene, and the run finished.
C21_Witness ==
    /\ pc = "finished"
    /\ <<"frame_failed", 1>> \in log
    /\ ~Exists(fs, Frame(1))
    /\ calls[2].tts = 1
    /\ prompt[2][2] = 1

\* The greatest of a set of naturals, 0 for the empty set.
Max(S) == IF S = {} THEN 0 ELSE CHOOSE x \in S : \A y \in S : y <= x

\* The last scene before id that process_scene returned a result for (0 when
\* there is none).
LastSucceeded(id) == Max({j \in Range(generated) : j < id})

\* C22 (as claimed): scene 1 is given the fixed introduction, and every later
\* scene a prompt made of the template, its own visual description and the
\* visual description of the scene just before it in the script, whether or
\* not that scene succeeded.
C22_PromptFromPrecedingScene ==
    \A id \in SceneIds :
        prompt[id][1] # "none" =>
            IF id = 1 THEN prompt[id] = <<"intro", 0, 0>>
            ELSE /\ prompt[id][1] \in {"text", "blank"}
                 /\ prompt[id][3] = id
                 /\ prompt[id][2] = id - 1

\* C22 (amended): scene 1 is given the fixed introduction, and every later
\* scene a prompt made of the template, its own visual description and the
\* visual description of the last earlier scene that process_scene returned
\* a result for in this invocation, or no visual description when there is
\* none.
C22_PromptFromLastSucceeded ==
    \A id \in SceneIds :
        prompt[id][1] # "none" =>
            IF id = 1 THEN prompt[id] = <<"intro", 0, 0>>
            ELSE /\ prompt[id][1] \in {"text", "blank"}
                 /\ prompt[id][3] = id
                 /\ prompt[id][2] = LastSucceeded(id)

\* C22 witness: scene 1 was given the introduction and failed, and scene 2
\* was given a prompt with its own visual description and no previous one.
C22_Witness ==
    /\ prompt[1] = <<"intro", 0, 0>>
    /\ 1 \in attempted /\ 1 \notin Range(generated)
    /\ prompt[2] = <<"text", 0, 2>>
    /\ job[2] = "downloaded"

====
